---- MODULE Spec2Model ----
(***************************************************************************)
(* Model of the statistical plot builders of report-builder                *)
(* (src/src/plots.rs): ecdf, interpolate_ecdf, estimate_pi0, plot_pp,      *)
(* plot_score_histogram, plot_boxplot and plot_scatter.                    *)
(*                                                                         *)
(* A caller prepares the arguments of one call (Call..), then the called   *)
(* function runs as one step and either returns a value or panics.         *)
(*                                                                         *)
(* Numbers.  An input f64 (a score, an intensity) is modelled by an        *)
(* integer: the inputs are the finite, integer-valued floats of ScoreVals. *)
(* A computed f64 is a record [cls, num, den]: cls = "fin" is the float    *)
(* nearest num/den (kept in lowest terms, den > 0, so two computed floats  *)
(* are equal exactly when their records are), cls = "inf" is +infinity and *)
(* cls = "nan" is NaN.  For the small counts of the model two different    *)
(* fractions never round to the same float, and n/n is exactly 1.0.        *)
(***************************************************************************)
EXTENDS Integers, Sequences, FiniteSets, TLC

\* ---------------------------------------------------------------- bounds
\* Longest score or label sequence a caller passes.
MaxLen == 3
\* Scores are drawn from 1..MaxScore.
MaxScore == 2
\* Longest query sequence passed to interpolate_ecdf on its own.
MaxQuery == 2
\* Most groups (plot_boxplot) or series (plot_scatter) a caller passes.
MaxSeries == 2

\* ------------------------------------------------------- program constants
\* plots.rs:99   linspace(x_min, x_max, 1000)
GridPoints == 1000
\* plots.rs:177  x[0].len() > 10_000
WebGlThreshold == 10000
\* plots.rs:121  format!("Estimated π₀ = {:.3}", pi0)
Pi0Decimals == 3

\* ------------------------------------------------------------ f64 values
Abs(n) == IF n < 0 THEN -n ELSE n

RECURSIVE Gcd(_, _)
Gcd(a, b) == IF b = 0 THEN a ELSE Gcd(b, a % b)

\* The float nearest n/d, d # 0.
F(n, d) ==
    LET g == Gcd(Abs(n), Abs(d))
        s == IF d < 0 THEN -1 ELSE 1
    IN  [cls |-> "fin", num |-> s * (n \div g), den |-> s * (d \div g)]

Inf == [cls |-> "inf", num |-> 1, den |-> 0]
NaN == [cls |-> "nan", num |-> 0, den |-> 0]

\* `v as f64` for an integer-valued input or a usize count.
Num(v) == F(v, 1)

\* a / b on f64 for two non-negative counts: x/0.0 is inf, 0.0/0.0 is NaN.
FDiv(a, b) ==
    IF b = 0 THEN (IF a = 0 THEN NaN ELSE Inf) ELSE F(a, b)

\* a * b on f64 (operands are never negative here).
FMul(a, b) ==
    IF a.cls = "nan" \/ b.cls = "nan" THEN NaN
    ELSE IF a.cls = "inf" \/ b.cls = "inf"
         THEN (IF a.num = 0 \/ b.num = 0 THEN NaN ELSE Inf)
         ELSE F(a.num * b.num, a.den * b.den)

\* a + b on finite f64 (plot_pp builds its grid from finite scores).
FAdd(a, b) == F(a.num * b.den + b.num * a.den, a.den * b.den)

\* a >= b on f64: false whenever an operand is NaN.
FGe(a, b) ==
    IF a.cls = "nan" \/ b.cls = "nan" THEN FALSE
    ELSE IF a.cls = "inf" THEN TRUE
    ELSE IF b.cls = "inf" THEN FALSE
    ELSE a.num * b.den >= b.num * a.den

\* f64::min and f64::max on two input values (integers).
FMin(a, b) == IF a <= b THEN a ELSE b
FMax(a, b) == IF a >= b THEN a ELSE b

\* ------------------------------------------------------------- formatting
Digit(n) == <<"0", "1", "2", "3", "4", "5", "6", "7", "8", "9">>[n + 1]

RECURSIVE NatStr(_)
NatStr(n) == IF n < 10 THEN Digit(n) ELSE NatStr(n \div 10) \o Digit(n % 10)

RECURSIVE Pow10(_)
Pow10(k) == IF k = 0 THEN 1 ELSE 10 * Pow10(k - 1)

\* The k low decimal digits of n, zero padded.
RECURSIVE FracStr(_, _)
FracStr(n, k) == IF k = 0 THEN "" ELSE FracStr(n \div 10, k - 1) \o Digit(n % 10)

\* num/den >= 0 scaled by 10^k and rounded to the nearest integer, ties to even.
RoundScaled(num, den, k) ==
    LET q == (num * Pow10(k)) \div den
        r == (num * Pow10(k)) % den
    IN  IF 2 * r > den \/ (2 * r = den /\ q % 2 = 1) THEN q + 1 ELSE q

\* Mutant of FmtFixed: one decimal too few.
FmtFixedShort(v, k) ==
    IF v.cls = "nan" THEN "NaN"
    ELSE IF v.cls = "inf" THEN "inf"
    ELSE LET m == RoundScaled(v.num, v.den, k - 1)
         IN  NatStr(m \div Pow10(k - 1)) \o "." \o FracStr(m % Pow10(k - 1), k - 1)

\* format!("{:.k}", v) of a non-negative f64.
FmtFixed(v, k) ==
    IF v.cls = "nan" THEN "NaN"
    ELSE IF v.cls = "inf" THEN "inf"
    ELSE LET m == RoundScaled(v.num, v.den, k)
         IN  IF k = 0 THEN NatStr(m)
             ELSE NatStr(m \div Pow10(k)) \o "." \o FracStr(m % Pow10(k), k)

\* ------------------------------------------------------------------ ecdf
\* One step of the stable insertion sort slice::sort_by runs on short
\* slices: v moves left past every element greater than it.
RECURSIVE InsertSorted(_, _)
InsertSorted(s, v) ==
    IF s = <<>> THEN <<v>>
    ELSE IF s[Len(s)] > v
         THEN Append(InsertSorted(SubSeq(s, 1, Len(s) - 1), v), s[Len(s)])
         ELSE Append(s, v)

\* data.sort_by(|a, b| a.partial_cmp(b).unwrap()) on values that all compare
\* (the model's inputs hold no NaN, on which the comparator would panic).
RECURSIVE SortAsc(_)
SortAsc(s) ==
    IF s = <<>> THEN <<>>
    ELSE InsertSorted(SortAsc(SubSeq(s, 1, Len(s) - 1)), s[Len(s)])

\* Mutant of EcdfY: fractions counted from 0, (i - 1)/n.
EcdfYFromZero(n) == [i \in 1..n |-> FDiv(i - 1, n)]

\* (1..=data.len()).map(|i| i as f64 / n)
EcdfY(n) == [i \in 1..n |-> FDiv(i, n)]

\* fn ecdf(data: &mut Vec<f64>) -> (Vec<f64>, Vec<f64>): `data` is the
\* argument as the call leaves it (sorted in place), x and y the pair returned.
ecdf(data) ==
    LET sorted == SortAsc(data)
    IN  [data |-> sorted, x |-> sorted, y |-> EcdfY(Len(sorted))]

\* ------------------------------------------------------ interpolate_ecdf
\* x.iter().position(|&xv| xv >= xi), 1-based; 0 stands for None.
RECURSIVE PositionFrom(_, _, _)
PositionFrom(x, xi, k) ==
    IF k > Len(x) THEN 0
    ELSE IF FGe(Num(x[k]), xi) THEN k ELSE PositionFrom(x, xi, k + 1)

\* Mutant of Position: the first x strictly greater than the query point.
RECURSIVE PositionStrictFrom(_, _, _)
PositionStrictFrom(x, xi, k) ==
    IF k > Len(x) THEN 0
    ELSE IF ~FGe(xi, Num(x[k])) THEN k ELSE PositionStrictFrom(x, xi, k + 1)

PositionStrict(x, xi) == PositionStrictFrom(x, xi, 1)

Position(x, xi) == PositionFrom(x, xi, 1)

\* Mutant of InterpIndex: falls back to the first position, unwrap_or(0).
InterpIndexFirst(x, xi) ==
    LET idx == Position(x, xi)
    IN  IF idx # 0 THEN idx ELSE 1

\* .unwrap_or(x.len() - 1), 1-based.
InterpIndex(x, xi) ==
    LET idx == Position(x, xi)
    IN  IF idx # 0 THEN idx ELSE Len(x)

\* The panics of interpolate_ecdf: the closure runs once per query point;
\* on an empty x, x.len() - 1 overflows (a panic with overflow checks, an
\* index of usize::MAX and an out-of-bounds panic without them); y[idx]
\* panics when y is shorter than x.
InterpolatePanics(x, y, x_seq) ==
    IF x_seq = <<>> THEN {}
    ELSE IF Len(x) = 0
         THEN {"attempt to subtract with overflow", "index out of bounds"}
         ELSE IF \E k \in 1..Len(x_seq) : InterpIndex(x, x_seq[k]) > Len(y)
              THEN {"index out of bounds"}
              ELSE {}

\* fn interpolate_ecdf(x, y, x_seq) -> Vec<f64>, when it does not panic.
interpolate_ecdf(x, y, x_seq) ==
    [k \in 1..Len(x_seq) |-> y[InterpIndex(x, x_seq[k])]]

\* ---------------------------------------------------------- estimate_pi0
\* labels.iter().filter(|&&l| l == v).count()
RECURSIVE CountEq(_, _)
CountEq(labels, v) ==
    IF labels = <<>> THEN 0
    ELSE CountEq(Tail(labels), v) + (IF Head(labels) = v THEN 1 ELSE 0)

\* Mutant of estimate_pi0: the ratio upside down, targets / decoys.
estimate_pi0_inverted(labels) == FDiv(CountEq(labels, 1), CountEq(labels, -1))

\* fn estimate_pi0(labels: &Vec<i32>) -> f64
estimate_pi0(labels) == FDiv(CountEq(labels, -1), CountEq(labels, 1))

\* ------------------------------------------------------------- partition
\* The loop of plot_pp and plot_score_histogram over scores.zip(labels):
\* label 1 pushes to scores_target, any other label to scores_decoy.
\* Mutant of Partition: each score is put in front of its class.
RECURSIVE PartitionReversed(_, _)
PartitionReversed(scores, labels) ==
    IF scores = <<>> \/ labels = <<>>
    THEN [target |-> <<>>, decoy |-> <<>>]
    ELSE LET n == IF Len(scores) < Len(labels) THEN Len(scores) ELSE Len(labels)
             rest == PartitionReversed(SubSeq(scores, 1, n - 1), SubSeq(labels, 1, n - 1))
         IN  IF labels[n] = 1
             THEN [target |-> <<scores[n]>> \o rest.target, decoy |-> rest.decoy]
             ELSE [target |-> rest.target, decoy |-> <<scores[n]>> \o rest.decoy]

RECURSIVE Partition(_, _)
Partition(scores, labels) ==
    IF scores = <<>> \/ labels = <<>>
    THEN [target |-> <<>>, decoy |-> <<>>]
    ELSE LET n == IF Len(scores) < Len(labels) THEN Len(scores) ELSE Len(labels)
             rest == Partition(SubSeq(scores, 1, n - 1), SubSeq(labels, 1, n - 1))
         IN  IF labels[n] = 1
             THEN [target |-> Append(rest.target, scores[n]), decoy |-> rest.decoy]
             ELSE [target |-> rest.target, decoy |-> Append(rest.decoy, scores[n])]

\* ------------------------------------------------------------- plot data
\* The outcome of a builder: a panic with its message, or Result::Ok(plot).
\* No builder constructs Result::Err.
Panic(m) == [kind |-> "panic", msg |-> m]
Ok(plot) == [kind |-> "return", val |-> [tag |-> "Ok", plot |-> plot]]

NoLine == [color |-> "", dash |-> ""]

\* Scatter::new(x, y) with the options the builders set; web_gl is whether
\* the trace renders through WebGL (plotly's web_gl_mode).
ScatterTrace(x, y, mode, name, line, marker_size, web_gl) ==
    [type |-> "Scatter", x |-> x, y |-> y, mode |-> mode, name |-> name,
     line |-> line, marker_size |-> marker_size, web_gl |-> web_gl]

\* itertools_num::linspace(a, b, n): n points a + step * i, i = 0..n-1, with
\* step = (b - a) / (n - 1) (0 when n <= 1); a and b are input values.  The
\* grid points are the exact fractions: the rounding of step and of each
\* sum to the nearest f64 is not modelled.
Linspace(a, b, n) ==
    LET step == IF n > 1 THEN F(b - a, n - 1) ELSE Num(0)
    IN  [i \in 1..n |-> FAdd(Num(a), FMul(step, Num(i - 1)))]

\* Mutant of CheckLabels: the assertion on the label values is missing.
CheckLengthsOnly(scores, labels) ==
    IF Len(scores) # Len(labels)
    THEN "Scores and labels must have the same length"
    ELSE ""

\* assert_eq!(scores.len(), labels.len(), ..) and assert!(labels all 1 or -1),
\* the first two statements of plot_pp and plot_score_histogram: the panic
\* message, or "" when both assertions pass.
CheckLabels(scores, labels) ==
    IF Len(scores) # Len(labels)
    THEN "Scores and labels must have the same length"
    ELSE IF \E i \in 1..Len(labels) : labels[i] # 1 /\ labels[i] # -1
         THEN "Labels must be 1 for targets and -1 for decoys"
         ELSE ""

\* ----------------------------------------------------- plot_score_histogram
plot_score_histogram(scores, labels, title, x_title) ==
    IF CheckLabels(scores, labels) # "" THEN Panic(CheckLabels(scores, labels))
    ELSE LET p == Partition(scores, labels)
             trace_target == [type |-> "Histogram", x |-> p.target, name |-> "Target"]
             trace_decoy == [type |-> "Histogram", x |-> p.decoy, name |-> "Decoy"]
             layout == [title |-> title,
                        x_axis |-> [title |-> x_title],
                        y_axis |-> [title |-> "Density"]]
         IN  Ok([traces |-> <<trace_target, trace_decoy>>, layout |-> layout])

\* ------------------------------------------------------------------ plot_pp
\* Mutant of PPTraces: the scatter series has the two ECDFs the wrong way
\* round, target as x and decoy as y.
PPTracesSwapped(y_target_interp, y_decoy_interp, pi0) ==
    LET pi0_line_y == [k \in 1..Len(y_decoy_interp) |-> FMul(pi0, y_decoy_interp[k])]
        scatter == ScatterTrace(y_target_interp, y_decoy_interp, "Markers",
                                "Target vs Decoy ECDF", NoLine, 0, FALSE)
        reference_line == ScatterTrace(<<Num(0), Num(1)>>, <<Num(0), Num(1)>>, "Lines",
                                       "y = x (Perfect match)",
                                       [color |-> "red", dash |-> "Dash"], 0, FALSE)
        pi0_line == ScatterTrace(y_decoy_interp, pi0_line_y, "Lines",
                                 "Estimated π₀ = " \o FmtFixed(pi0, Pi0Decimals),
                                 [color |-> "blue", dash |-> "Dot"], 0, FALSE)
    IN  <<scatter, reference_line, pi0_line>>

\* The three traces of plot_pp.
PPTraces(y_target_interp, y_decoy_interp, pi0) ==
    LET pi0_line_y == [k \in 1..Len(y_decoy_interp) |-> FMul(pi0, y_decoy_interp[k])]
        scatter == ScatterTrace(y_decoy_interp, y_target_interp, "Markers",
                                "Target vs Decoy ECDF", NoLine, 0, FALSE)
        reference_line == ScatterTrace(<<Num(0), Num(1)>>, <<Num(0), Num(1)>>, "Lines",
                                       "y = x (Perfect match)",
                                       [color |-> "red", dash |-> "Dash"], 0, FALSE)
        pi0_line == ScatterTrace(y_decoy_interp, pi0_line_y, "Lines",
                                 "Estimated π₀ = " \o FmtFixed(pi0, Pi0Decimals),
                                 [color |-> "blue", dash |-> "Dot"], 0, FALSE)
    IN  <<scatter, reference_line, pi0_line>>

plot_pp(scores, labels, title) ==
    IF CheckLabels(scores, labels) # "" THEN Panic(CheckLabels(scores, labels))
    ELSE LET p == Partition(scores, labels)
             t == ecdf(p.target)
             d == ecdf(p.decoy)
         IN  IF t.x = <<>> \/ d.x = <<>>
             THEN \* x_target.first().unwrap() or x_decoy.first().unwrap()
                  Panic("called Option::unwrap() on a None value")
             ELSE LET x_min == FMin(t.x[1], d.x[1])
                      x_max == FMax(t.x[Len(t.x)], d.x[Len(d.x)])
                      x_seq == Linspace(x_min, x_max, GridPoints)
                      y_target_interp == interpolate_ecdf(t.x, t.y, x_seq)
                      y_decoy_interp == interpolate_ecdf(d.x, d.y, x_seq)
                      pi0 == estimate_pi0(labels)
                      layout == [title |-> title,
                                 x_axis |-> [title |-> "Decoy ECDF"],
                                 y_axis |-> [title |-> "Target ECDF"]]
                  IN  Ok([traces |-> PPTraces(y_target_interp, y_decoy_interp, pi0),
                          layout |-> layout])

\* ------------------------------------------------------------- plot_boxplot
\* Mutant of plot_boxplot: only a missing name is rejected (scores.len() >
\* filenames.len()); surplus names are ignored.
plot_boxplot_surplus_names(scores, filenames, title, x_title, y_title) ==
    IF Len(scores) > Len(filenames)
    THEN Panic("Scores and filenames must have the same length")
    ELSE LET trace(i) == [type |-> "BoxPlot",
                          x |-> [k \in 1..Len(scores[i]) |-> filenames[i]],
                          y |-> scores[i],
                          name |-> filenames[i],
                          box_mean |-> TRUE]
             layout == [title |-> title,
                        x_axis |-> [title |-> x_title, tick_angle |-> 45],
                        y_axis |-> [title |-> y_title],
                        show_legend |-> FALSE]
         IN  Ok([traces |-> [i \in 1..Len(scores) |-> trace(i)], layout |-> layout])

plot_boxplot(scores, filenames, title, x_title, y_title) ==
    IF Len(scores) # Len(filenames)
    THEN Panic("Scores and filenames must have the same length")
    ELSE LET trace(i) == [type |-> "BoxPlot",
                          x |-> [k \in 1..Len(scores[i]) |-> filenames[i]],
                          y |-> scores[i],
                          name |-> filenames[i],
                          box_mean |-> TRUE]
             layout == [title |-> title,
                        x_axis |-> [title |-> x_title, tick_angle |-> 45],
                        y_axis |-> [title |-> y_title],
                        show_legend |-> FALSE]
         IN  Ok([traces |-> [i \in 1..Len(scores) |-> trace(i)], layout |-> layout])

\* ------------------------------------------------------------- plot_scatter
plot_scatter(x, y, labels, title, x_title, y_title) ==
    IF Len(x) # Len(y) THEN Panic("X and Y must have the same length")
    ELSE IF Len(x) = 0 THEN Panic("index out of bounds")      \* x[0]
    ELSE IF Len(labels) < Len(x) THEN Panic("index out of bounds")  \* labels[i]
    ELSE LET web_gl_mode == Len(x[1]) > WebGlThreshold   \* computed, never read
             trace(i) == ScatterTrace(x[i], y[i], "Markers", labels[i], NoLine, 10, TRUE)
             layout == [title |-> title,
                        x_axis |-> [title |-> x_title],
                        y_axis |-> [title |-> y_title],
                        legend |-> [orientation |-> "Vertical"]]
         IN  Ok([traces |-> [i \in 1..Len(x) |-> trace(i)], layout |-> layout])

\* ----------------------------------------------------------------- inputs
SeqsUpTo(S, n) == UNION {[1..k -> S] : k \in 0..n}

ScoreVals == 1..MaxScore
\* Query points reach below the least and above the greatest score.
QueryVals == 0..(MaxScore + 1)
\* An i32 label: 1 (target), -1 (decoy), and 0 for every other value.
LabelVals == {1, -1, 0}

Samples == SeqsUpTo(ScoreVals, MaxLen)
LabelSeqs == SeqsUpTo(LabelVals, MaxLen)
Queries == SeqsUpTo(QueryVals, MaxQuery)

\* n copies of v.
Fill(n, v) == [i \in 1..n |-> v]

\* Group and series names: the first k of these, k = 0..MaxSeries.
Names == [i \in 1..MaxSeries |-> "file" \o NatStr(i)]
NameSeqs == {SubSeq(Names, 1, k) : k \in 0..MaxSeries}

\* The per-file samples of a box plot.
Groups == {<<>>, <<2, 1>>}

\* x-series on both sides of the WebGL threshold, and y-series.
XSeries == {<<1, 2>>, Fill(WebGlThreshold, 1), Fill(WebGlThreshold + 1, 1)}
YSeries == {<<1, 2>>, <<2, 1>>}

\* ------------------------------------------------------------------ state
VARIABLES
    pc,     \* "idle", "called", "returned" or "panicked"
    args,   \* the caller-owned arguments of the current call
    ret     \* the value returned, or the panic message

vars == <<pc, args, ret>>

NoArgs == [fn |-> "none"]
NoRet == <<>>

Init == pc = "idle" /\ args = NoArgs /\ ret = NoRet

\* The caller, between calls, builds the arguments r of its next call.
Call(r) ==
    /\ args' = r
    /\ pc' = "called"
    /\ ret' = NoRet

CallEcdf ==
    /\ pc = "idle"
    /\ \E s \in Samples : Call([fn |-> "ecdf", data |-> s])

\* interpolate_ecdf is called on the pair an ecdf call returned, with a
\* query sequence of its own or with the ECDF's own x values as the query.
CallInterpolateEcdf ==
    /\ pc = "idle"
    /\ \E s \in Samples : \E q \in Queries \cup {ecdf(s).x} :
           Call([fn |-> "interpolate_ecdf", x |-> ecdf(s).x, y |-> ecdf(s).y,
                 x_seq |-> [k \in 1..Len(q) |-> Num(q[k])]])

CallEstimatePi0 ==
    /\ pc = "idle"
    /\ \E l \in LabelSeqs : Call([fn |-> "estimate_pi0", labels |-> l])

CallPlotPP ==
    /\ pc = "idle"
    /\ \E s \in Samples, l \in LabelSeqs :
           Call([fn |-> "plot_pp", scores |-> s, labels |-> l, title |-> "title"])

CallPlotScoreHistogram ==
    /\ pc = "idle"
    /\ \E s \in Samples, l \in LabelSeqs :
           Call([fn |-> "plot_score_histogram", scores |-> s, labels |-> l,
                 title |-> "title", x_title |-> "x"])

CallPlotBoxplot ==
    /\ pc = "idle"
    /\ \E g \in SeqsUpTo(Groups, MaxSeries), f \in NameSeqs :
           Call([fn |-> "plot_boxplot", scores |-> g, filenames |-> f,
                 title |-> "title", x_title |-> "x", y_title |-> "y"])

CallPlotScatter ==
    /\ pc = "idle"
    /\ \E x \in SeqsUpTo(XSeries, MaxSeries), y \in SeqsUpTo(YSeries, MaxSeries),
          l \in NameSeqs :
           Call([fn |-> "plot_scatter", x |-> x, y |-> y, labels |-> l,
                 title |-> "title", x_title |-> "x", y_title |-> "y"])

\* The caller takes the returned value and drops the arguments.  A panic
\* unwinds the caller: no step follows it.
Consume ==
    /\ pc = "returned"
    /\ pc' = "idle" /\ args' = NoArgs /\ ret' = NoRet

Ecdf ==
    /\ pc = "called" /\ args.fn = "ecdf"
    /\ LET r == ecdf(args.data)
       IN  /\ args' = [args EXCEPT !.data = r.data]
           /\ ret' = <<r.x, r.y>>
    /\ pc' = "returned"

InterpolateEcdf ==
    /\ pc = "called" /\ args.fn = "interpolate_ecdf"
    /\ LET panics == InterpolatePanics(args.x, args.y, args.x_seq)
       IN  IF panics # {}
           THEN pc' = "panicked" /\ ret' \in panics
           ELSE pc' = "returned"
                /\ ret' = interpolate_ecdf(args.x, args.y, args.x_seq)
    /\ UNCHANGED args

EstimatePi0 ==
    /\ pc = "called" /\ args.fn = "estimate_pi0"
    /\ ret' = estimate_pi0(args.labels)
    /\ pc' = "returned"
    /\ UNCHANGED args

\* Mutant of Finish: plot_pp has sorted the caller's scores in place instead
\* of sorting its own scores_target and scores_decoy.
FinishSortedInPlace(out) ==
    /\ pc' = (IF out.kind = "panic" THEN "panicked" ELSE "returned")
    /\ ret' = (IF out.kind = "panic" THEN out.msg ELSE out.val)
    /\ args' = IF args.fn = "plot_pp" /\ out.kind = "return"
               THEN [args EXCEPT !.scores = SortAsc(args.scores)]
               ELSE args

\* A builder's outcome becomes the caller's state.  The builders take
\* their data through shared borrows (&Vec<f64>, &Vec<i32>, &Vec<Vec<f64>>)
\* and sort only the vectors they build themselves: the caller's arguments
\* are as they were.
Finish(out) ==
    /\ pc' = (IF out.kind = "panic" THEN "panicked" ELSE "returned")
    /\ ret' = (IF out.kind = "panic" THEN out.msg ELSE out.val)
    /\ UNCHANGED args

PlotPP ==
    /\ pc = "called" /\ args.fn = "plot_pp"
    /\ Finish(plot_pp(args.scores, args.labels, args.title))

PlotScoreHistogram ==
    /\ pc = "called" /\ args.fn = "plot_score_histogram"
    /\ Finish(plot_score_histogram(args.scores, args.labels, args.title, args.x_title))

PlotBoxplot ==
    /\ pc = "called" /\ args.fn = "plot_boxplot"
    /\ Finish(plot_boxplot(args.scores, args.filenames, args.title,
                           args.x_title, args.y_title))

PlotScatter ==
    /\ pc = "called" /\ args.fn = "plot_scatter"
    /\ Finish(plot_scatter(args.x, args.y, args.labels, args.title,
                           args.x_title, args.y_title))

Next ==
    \/ CallEcdf
    \/ CallInterpolateEcdf
    \/ CallEstimatePi0
    \/ CallPlotPP
    \/ CallPlotScoreHistogram
    \/ CallPlotBoxplot
    \/ CallPlotScatter
    \/ Consume
    \/ Ecdf
    \/ InterpolateEcdf
    \/ EstimatePi0
    \/ PlotPP
    \/ PlotScoreHistogram
    \/ PlotBoxplot
    \/ PlotScatter

Spec == Init /\ [][Next]_vars

\* ============================================================== claims
Done == pc \in {"returned", "panicked"}
Returned(f) == pc = "returned" /\ args.fn = f
Finished(f) == Done /\ args.fn = f

\* The number of positions of s holding v.
Occurrences(s, v) == Cardinality({i \in 1..Len(s) : s[i] = v})

\* a <= b for two finite computed floats.
FinLe(a, b) == a.num * b.den <= b.num * a.den

\* ------------------------------------------------------------------- C1
\* The call interpolates an ECDF at its own x values.
OwnXQuery ==
    /\ args.fn = "interpolate_ecdf"
    /\ args.x # <<>>
    /\ args.x_seq = [k \in 1..Len(args.x) |-> Num(args.x[k])]

\* The first position of x holding the value x[i].
FirstOccurrence(x, i) ==
    CHOOSE j \in 1..i : x[j] = x[i] /\ \A h \in 1..(j - 1) : x[h] # x[i]

\* C1 as stated: for every non-empty sample S, interpolate_ecdf on ecdf(S)
\* at S's own sorted x values returns S's ECDF y values exactly, position by
\* position, repeated values included.
C1_OwnXReproducesY ==
    (pc = "returned" /\ OwnXQuery) => ret = args.y

\* C1 amended: for every non-empty sample S, interpolate_ecdf on ecdf(S) at
\* S's own sorted x values returns, at each position, the ECDF y value of
\* the first position holding the same x value; it returns S's ECDF y values
\* exactly when the values of S are pairwise distinct.
C1_OwnXReturnsFirstOccurrenceY ==
    (Done /\ OwnXQuery) =>
        /\ pc = "returned"
        /\ Len(ret) = Len(args.y)
        /\ \A i \in 1..Len(args.x) : ret[i] = args.y[FirstOccurrence(args.x, i)]
        /\ (\A i, j \in 1..Len(args.x) : i # j => args.x[i] # args.x[j])
              => ret = args.y

\* A sample with a repeated value, interpolated at its own x values: the
\* second of the two equal values gets the first one's fraction.
C1_Witness ==
    /\ pc = "returned" /\ OwnXQuery
    /\ args.x = <<1, 1, 2>>
    /\ ret = <<F(1, 3), F(1, 3), F(1, 1)>>
    /\ args.y = <<F(1, 3), F(2, 3), F(1, 1)>>

\* ------------------------------------------------------------------- C2
\* The input-contract violations the builders document.
ContractViolation ==
    \/ /\ args.fn \in {"plot_pp", "plot_score_histogram"}
       /\ \/ Len(args.scores) # Len(args.labels)
          \/ \E i \in 1..Len(args.labels) : args.labels[i] \notin {1, -1}
    \/ /\ args.fn = "plot_pp"
       /\ \/ Occurrences(args.labels, 1) = 0
          \/ Occurrences(args.labels, -1) = 0
    \/ /\ args.fn = "plot_boxplot"
       /\ Len(args.scores) # Len(args.filenames)
    \/ /\ args.fn = "plot_scatter"
       /\ Len(args.x) # Len(args.y)

\* C2 as stated: every documented input-contract violation of a builder
\* comes back to the caller as a returned error value (LengthMismatch,
\* InvalidLabel or EmptySample); no builder panics on these conditions.
C2_ViolationsAreReturnedErrors ==
    (Done /\ ContractViolation) =>
        /\ pc = "returned"
        /\ ret.tag = "Err"

\* The panic message of the first violated check of the call.
ViolationPanic ==
    IF args.fn = "plot_boxplot"
    THEN "Scores and filenames must have the same length"
    ELSE IF args.fn = "plot_scatter"
    THEN "X and Y must have the same length"
    ELSE IF Len(args.scores) # Len(args.labels)
    THEN "Scores and labels must have the same length"
    ELSE IF \E i \in 1..Len(args.labels) : args.labels[i] \notin {1, -1}
    THEN "Labels must be 1 for targets and -1 for decoys"
    ELSE "called Option::unwrap() on a None value"

\* C2 amended: every documented input-contract violation of a builder makes
\* the builder panic: with the message of the violated assertion for a
\* length mismatch or a label other than 1/-1, and with the panic of
\* unwrap() on None for an empty target or decoy class in plot_pp; no
\* builder returns a plot or an error value on these conditions.
C2_ViolationsPanic ==
    (Done /\ ContractViolation) =>
        /\ pc = "panicked"
        /\ ret = ViolationPanic

\* plot_pp has panicked on a label that is neither 1 nor -1.
C2_Witness ==
    /\ pc = "panicked" /\ args.fn = "plot_pp"
    /\ args.scores = <<1, 2>> /\ args.labels = <<1, 0>>
    /\ ret = "Labels must be 1 for targets and -1 for decoys"

\* ------------------------------------------------------------------- C3
\* C3: plot_scatter flags the plot for WebGL rendering exactly when the
\* first x-series has more than 10,000 points.
C3_WebGlExactlyAboveThreshold ==
    Returned("plot_scatter") =>
        \A i \in 1..Len(ret.plot.traces) :
            ret.plot.traces[i].web_gl = (Len(args.x[1]) > WebGlThreshold)

\* ------------------------------------------------------------------- C4
\* C4: estimate_pi0 on labels with no target label fails; it never returns
\* an estimate (infinity, NaN, 0 or any other) in that case.
C4_ZeroTargetsNeverReturns ==
    ~(Returned("estimate_pi0") /\ Occurrences(args.labels, 1) = 0)

\* ------------------------------------------------------------------- C5
\* C5: ecdf on a sample of zero values fails instead of returning a result.
C5_EmptySampleNeverReturns ==
    ~(Returned("ecdf") /\ Len(args.data) = 0)

\* ------------------------------------------------------------------- C6
\* C6: for every sample S of n >= 1 values, ecdf(S) returns (x, y) with
\* len(x) = len(y) = n, x the values of S in ascending order (the same
\* multiset, ties kept), y[i] = i/n for the 1-based position i, so y is
\* non-decreasing and its last value is exactly 1.
C6_EcdfOfSample ==
    [][(pc = "called" /\ args.fn = "ecdf" /\ Len(args.data) >= 1) =>
          LET S == args.data
              n == Len(S)
              x == ret'[1]
              y == ret'[2]
          IN  /\ pc' = "returned"
              /\ Len(x) = n /\ Len(y) = n
              /\ \A i \in 1..(n - 1) : x[i] <= x[i + 1]
              /\ \A v \in ScoreVals : Occurrences(x, v) = Occurrences(S, v)
              /\ \A i \in 1..n : y[i].cls = "fin" /\ y[i].num * n = i * y[i].den
              /\ \A i \in 1..(n - 1) : FinLe(y[i], y[i + 1])
              /\ y[n] = [cls |-> "fin", num |-> 1, den |-> 1]
      ]_vars

\* ecdf has returned on a three-value sample with a tie.
C6_Witness ==
    /\ Returned("ecdf")
    /\ ret = << <<1, 2, 2>>, <<F(1, 3), F(2, 3), F(1, 1)>> >>

\* ------------------------------------------------------------------- C7
\* The positions of x whose value is >= the query point q.
AtLeast(x, q) == {i \in 1..Len(x) : FGe(Num(x[i]), q)}

\* The step-function value of the ECDF (x, y) at q.
StepValue(x, y, q) ==
    IF AtLeast(x, q) = {} THEN y[Len(y)]
    ELSE y[CHOOSE i \in AtLeast(x, q) : \A j \in AtLeast(x, q) : i <= j]

\* C7: for every non-empty ECDF and every query sequence Q, interpolate_ecdf
\* returns a sequence as long as Q whose k-th entry is the y value at the
\* first position whose x is >= Q[k], or the last y value (1.0) if there is
\* none: a query below the minimum x returns the first y value, one above
\* the maximum x returns 1.0.
C7_StepFunction ==
    (Finished("interpolate_ecdf") /\ args.x # <<>>) =>
        LET x == args.x
            y == args.y
            Q == args.x_seq
        IN  /\ pc = "returned"
            /\ Len(ret) = Len(Q)
            /\ \A k \in 1..Len(Q) :
                  /\ ret[k] = StepValue(x, y, Q[k])
                  /\ ~FGe(Q[k], Num(x[1])) => ret[k] = y[1]
                  /\ ~FGe(Num(x[Len(x)]), Q[k]) => ret[k] = F(1, 1)

\* A query below the minimum and one above the maximum of the ECDF of <<1, 2>>.
C7_Witness ==
    /\ Returned("interpolate_ecdf")
    /\ args.x = <<1, 2>>
    /\ args.x_seq = <<Num(0), Num(3)>>
    /\ ret = <<F(1, 2), F(1, 1)>>

\* ------------------------------------------------------------------- C8
\* The positions of labels holding v, and the k-th smallest of them.
LabelledAt(labels, v) == {i \in 1..Len(labels) : labels[i] = v}
KthOf(I, k) == CHOOSE i \in I : Cardinality({j \in I : j <= i}) = k

\* The subsequence of scores at the positions labelled v, in order.
Labelled(scores, labels, v) ==
    [k \in 1..Cardinality(LabelledAt(labels, v)) |->
        scores[KthOf(LabelledAt(labels, v), k)]]

ValidLabels ==
    /\ Len(args.scores) = Len(args.labels)
    /\ \A i \in 1..Len(args.labels) : args.labels[i] \in {1, -1}

\* C8: on equal-length scores and labels with every label 1 or -1, the
\* partition step of plot_pp and plot_score_histogram yields as targets the
\* subsequence of scores labelled 1 and as decoys the subsequence labelled
\* -1, each in the original order, every score in exactly one of the two;
\* plot_score_histogram returns them as the data of its two series.
C8_PartitionByLabel ==
    (Finished("plot_pp") \/ Finished("plot_score_histogram")) /\ ValidLabels =>
        LET p == Partition(args.scores, args.labels)
        IN  /\ p.target = Labelled(args.scores, args.labels, 1)
            /\ p.decoy = Labelled(args.scores, args.labels, -1)
            /\ Len(p.target) + Len(p.decoy) = Len(args.scores)
            /\ args.fn = "plot_score_histogram" =>
                  /\ pc = "returned"
                  /\ ret.plot.traces[1].x = Labelled(args.scores, args.labels, 1)
                  /\ ret.plot.traces[2].x = Labelled(args.scores, args.labels, -1)

\* plot_score_histogram has split three scores into two targets and a decoy.
C8_Witness ==
    /\ Returned("plot_score_histogram")
    /\ args.scores = <<2, 1, 2>> /\ args.labels = <<1, -1, 1>>
    /\ ret.plot.traces[1].x = <<2, 2>>
    /\ ret.plot.traces[2].x = <<1>>

\* ------------------------------------------------------------------- C9
\* C9: for every label sequence with at least one target label,
\* estimate_pi0 returns (number of labels equal to -1) / (number of labels
\* equal to 1), whatever the order of the labels.
C9_DecoyTargetRatio ==
    (Finished("estimate_pi0") /\ Occurrences(args.labels, 1) >= 1) =>
        /\ pc = "returned"
        /\ ret.cls = "fin"
        /\ ret.num * Occurrences(args.labels, 1)
              = Occurrences(args.labels, -1) * ret.den

\* Two decoys and one target, the target in the middle: 2.0.
C9_Witness ==
    /\ Returned("estimate_pi0")
    /\ args.labels = <<-1, 1, -1>>
    /\ ret = F(2, 1)

\* ------------------------------------------------------------------ C10
\* A valid plot_pp input: equal lengths, labels 1 or -1, both classes present.
ValidPPInput ==
    /\ args.fn = "plot_pp"
    /\ ValidLabels
    /\ Occurrences(args.labels, 1) >= 1
    /\ Occurrences(args.labels, -1) >= 1

\* m thousandths written with exactly three decimals.
ThreeDecimals(m) ==
    NatStr(m \div 1000) \o "." \o Digit((m \div 100) % 10)
        \o Digit((m \div 10) % 10) \o Digit(m % 10)

\* m is a number of thousandths nearest to d/t.
NearestThousandth(m, d, t) == 2 * Abs(1000 * d - m * t) <= t

\* C10: plot_pp on any valid input returns a plot of exactly three series,
\* in this order: a marker series, a line series with x = [0, 1] and
\* y = [0, 1], and a line series whose name contains the pi0 estimate
\* (decoys / targets) written with exactly 3 decimals.
C10_ThreeSeries ==
    (Done /\ ValidPPInput) =>
        LET traces == ret.plot.traces
            d == Occurrences(args.labels, -1)
            t == Occurrences(args.labels, 1)
        IN  /\ pc = "returned"
            /\ ret.tag = "Ok"
            /\ Len(traces) = 3
            /\ traces[1].mode = "Markers"
            /\ traces[2].mode = "Lines"
            /\ traces[2].x = <<Num(0), Num(1)>>
            /\ traces[2].y = <<Num(0), Num(1)>>
            /\ traces[3].mode = "Lines"
            /\ \E m \in 0..(1000 * MaxLen) :
                  /\ NearestThousandth(m, d, t)
                  /\ traces[3].name = "Estimated π₀ = " \o ThreeDecimals(m)

\* plot_pp has returned on one decoy and two targets: pi0 = 1/2 reads 0.500.
C10_Witness ==
    /\ Returned("plot_pp")
    /\ args.labels = <<1, -1, 1>>
    /\ Len(ret.plot.traces) = 3
    /\ ret.plot.traces[2].name = "y = x (Perfect match)"
    /\ ret.plot.traces[3].name = "Estimated π₀ = 0.500"

\* ------------------------------------------------------------------ C11
\* C11: plot_boxplot called with a number of group names different from the
\* number of sample groups never returns a plot: it fails with the message
\* "Scores and filenames must have the same length", whether the names or
\* the sample groups are the longer sequence.
C11_BoxplotCountMismatch ==
    Finished("plot_boxplot") =>
        /\ Len(args.filenames) > Len(args.scores) =>
              /\ pc = "panicked"
              /\ ret = "Scores and filenames must have the same length"
        /\ Len(args.filenames) < Len(args.scores) =>
              /\ pc = "panicked"
              /\ ret = "Scores and filenames must have the same length"

\* plot_boxplot has failed on one sample group with two names.
C11_Witness ==
    /\ pc = "panicked" /\ args.fn = "plot_boxplot"
    /\ Len(args.scores) = 1 /\ Len(args.filenames) = 2
    /\ ret = "Scores and filenames must have the same length"

\* ------------------------------------------------------------------ C12
Builders == {"plot_pp", "plot_score_histogram", "plot_boxplot", "plot_scatter"}

\* C12: no builder mutates caller-owned input: across a call of plot_pp
\* (which sorts through ecdf), plot_score_histogram, plot_boxplot or
\* plot_scatter the caller's scores, labels and series sequences keep the
\* same values in the same order, whether the call returns or fails.
C12_BuildersLeaveInputs ==
    [][(pc = "called" /\ args.fn \in Builders) =>
          /\ pc' \in {"returned", "panicked"}
          /\ args' = args
      ]_vars

\* plot_pp has returned on unsorted scores: the caller's scores are still
\* unsorted, while the decoy class <<2, 1>> was sorted to build the decoy ECDF
\* (1/2 at the least score, the first grid point).
C12_Witness ==
    /\ Returned("plot_pp")
    /\ args.scores = <<2, 1, 2>> /\ args.labels = <<-1, -1, 1>>
    /\ ret.plot.traces[1].x[1] = F(1, 2)
    /\ ret.plot.traces[1].x[GridPoints] = F(1, 1)

\* ------------------------------------------------------------------ C14
\* The x-series, y-series and labels of the call have the same count.
EqualCounts ==
    /\ args.fn = "plot_scatter"
    /\ Len(args.x) = Len(args.y)
    /\ Len(args.labels) = Len(args.x)

\* C14: for every input whose x-series, y-series and label sequences all
\* have the same count (a count of zero included), plot_scatter returns a
\* plot with exactly one marker-mode series per (x_i, y_i) pair, in input
\* order, series i carrying x_i as x, y_i as y and labels[i] as its name.
C14_OneSeriesPerPair ==
    (Done /\ EqualCounts) =>
        /\ pc = "returned"
        /\ ret.tag = "Ok"
        /\ Len(ret.plot.traces) = Len(args.x)
        /\ \A i \in 1..Len(args.x) :
              /\ ret.plot.traces[i].mode = "Markers"
              /\ ret.plot.traces[i].x = args.x[i]
              /\ ret.plot.traces[i].y = args.y[i]
              /\ ret.plot.traces[i].name = args.labels[i]

\* ------------------------------------------------------------------ C15
\* The least and the greatest value of a non-empty sequence.
MinOf(s) == CHOOSE v \in {s[i] : i \in 1..Len(s)} : \A i \in 1..Len(s) : v <= s[i]
MaxOf(s) == CHOOSE v \in {s[i] : i \in 1..Len(s)} : \A i \in 1..Len(s) : v >= s[i]

\* The number of values of the sample S strictly below point k of the
\* GridPoints-point evenly spaced grid from lo to hi, which is
\* lo + (k - 1) * (hi - lo) / (GridPoints - 1).
BelowGridPoint(S, lo, hi, k) ==
    Cardinality({i \in 1..Len(S) :
        S[i] * (GridPoints - 1) < lo * (GridPoints - 1) + (k - 1) * (hi - lo)})

\* v is the ECDF of S interpolated at grid point k: the fraction of the
\* first value of S, in ascending order, that is >= the grid point.
IsEcdfAtGridPoint(v, S, lo, hi, k) ==
    LET below == BelowGridPoint(S, lo, hi, k)
        rank == IF below = Len(S) THEN Len(S) ELSE below + 1
    IN  v.cls = "fin" /\ v.num * Len(S) = rank * v.den

====
